---- MODULE Spec2Model ----
(***************************************************************************)
(* The in-memory link graph of the crawler (package memory, InMemoryGraph) *)
(* as a state machine.  Every public operation takes the graph's mutex for *)
(* its whole body; the specifications of a single caller take each one as  *)
(* one atomic action, and SpecConc runs the operations step by step under  *)
(* the mutex, for goroutines that call them at the same time.              *)
(*                                                                         *)
(* The two link maps hold pointers to the same Link records; the records   *)
(* are cells of a heap (linkObjs) and the maps hold addresses, so that two *)
(* entries aliasing one record hold the same address.  An Edge record is   *)
(* reached through the edge map, which holds the record here; a pointer to *)
(* it kept elsewhere is written as the edge's ID.                          *)
(* A key of linkEdgeMap holding the nil slice and an absent key are one    *)
(* value here: Go yields the nil slice for an absent key, and every use of *)
(* the map in the package is a range over, or an append to, that slice.    *)
(***************************************************************************)
EXTENDS Integers, Sequences, FiniteSets, TLC

VARIABLES
    linkObjs,      \* heap of *graph.Link: sequence of Link records, address = index
    links,         \* InMemoryGraph.links: uuid -> address of its Link
    linkURLIndex,  \* InMemoryGraph.linkURLIndex: url -> address of its Link
    edges,         \* InMemoryGraph.edges: uuid -> its Edge record
    linkEdgeMap,   \* InMemoryGraph.linkEdgeMap: uuid -> sequence of edge uuids
    now,           \* the clock read by time.Now().Unix()
    call,          \* the last call: operation, arguments on entry, results on return
                   \* (and, as history, the edge IDs a RemoveStaleEdges removed)
    repeated,      \* history: the last call was a RemoveStaleEdges repeating the call before it
    maxSubmitted,  \* history: url -> largest RetrievedAt ever passed to UpsertLink
    firstID,       \* history: url -> ID written back by the first UpsertLink of the url
    iter,          \* the iterator a caller holds: its list, its cursor and, as history,
                   \* the listed records as they were when it was made
    found,         \* the pointer the last successful FindLink returned to its caller
    passed,        \* the pointer a caller passed to its last UpsertLink or UpsertEdge
    mu,            \* InMemoryGraph.mu: the goroutine holding it for writing, those holding it for reading
    pc,            \* per goroutine: where it stands in the operation it runs
    req,           \* per goroutine: the operation it runs and its arguments
    tmp            \* per goroutine: the operation's local variables and results

vars == <<linkObjs, links, linkURLIndex, edges, linkEdgeMap, now, call, repeated,
          maxSubmitted, firstID, iter, found, passed, mu, pc, req, tmp>>

\* What the callers hold; no operation of the graph reads it.
client == <<iter, found, passed>>

\* The lock and the goroutines, used where operations overlap.
threads == <<mu, pc, req, tmp>>

\* What a single caller running one operation at a time leaves alone.
others == <<client, threads>>

store == <<linkObjs, links, linkURLIndex, edges, linkEdgeMap>>

linkStore == <<linkObjs, links, linkURLIndex>>

history == <<maxSubmitted, firstID>>

----------------------------------------------------------------------------
(* Bounds *)

\* Number of bytes of an identifier (16 in uuid.UUID).
UuidBytes == 2
\* Number of distinct identifiers uuid.New() can return.
MaxIds == 2
\* The clock and the submitted timestamps range over 0..MaxTime.
MaxTime == 1
\* At most this many edges are stored at once.
MaxEdges == 2

----------------------------------------------------------------------------
(* Identifiers *)

UuidSpace == 256 ^ UuidBytes

\* uuid.Nil, the zero value of uuid.UUID.
NilUUID == 0

\* The largest identifier (all bytes ff).
MaxUUID == UuidSpace - 1

\* The k-th identifier uuid.New() may return; never uuid.Nil.
UuidOf(k) == ((k * 34048) % (UuidSpace - 1)) + 1

IdPool == { UuidOf(k) : k \in 1..MaxIds }

\* ASCII code of the lowercase hexadecimal digit for nibble n.
HexDigit(n) == IF n < 10 THEN 48 + n ELSE 87 + n

\* The i-th byte of an identifier, most significant first (i in 1..UuidBytes).
ByteAt(id, i) == (id \div (256 ^ (UuidBytes - i))) % 256

\* Text of bytes i..UuidBytes: two hex digits per byte, a dash after the first byte.
RECURSIVE EncodeFrom(_, _)
EncodeFrom(id, i) ==
    IF i > UuidBytes THEN << >>
    ELSE LET b == ByteAt(id, i)
             hex == << HexDigit(b \div 16), HexDigit(b % 16) >>
             sep == IF i = 1 /\ UuidBytes > 1 THEN << 45 >> ELSE << >>
         IN  hex \o sep \o EncodeFrom(id, i + 1)

\* Mutant of String: a byte is written without its leading zero digit.
RECURSIVE EncodeUnpaddedFrom(_, _)
EncodeUnpaddedFrom(id, i) ==
    IF i > UuidBytes THEN << >>
    ELSE LET b == ByteAt(id, i)
             hex == IF b < 16 THEN << HexDigit(b) >>
                    ELSE << HexDigit(b \div 16), HexDigit(b % 16) >>
             sep == IF i = 1 /\ UuidBytes > 1 THEN << 45 >> ELSE << >>
         IN  hex \o sep \o EncodeUnpaddedFrom(id, i + 1)

StringUnpadded(id) == EncodeUnpaddedFrom(id, 1)

\* uuid.UUID.String(): the canonical text, as a sequence of ASCII codes.
String(id) == EncodeFrom(id, 1)

\* Go's s < t on strings: bytewise lexicographic order.
RECURSIVE StrLess(_, _)
StrLess(s, t) ==
    IF t = << >> THEN FALSE
    ELSE IF s = << >> THEN TRUE
    ELSE IF Head(s) # Head(t) THEN Head(s) < Head(t)
    ELSE StrLess(Tail(s), Tail(t))

\* Mutant of InPartition: the upper end of the range is included.
InPartitionClosed(id, from, to) ==
    /\ ~StrLess(String(id), String(from))
    /\ ~StrLess(String(to), String(id))

\* id >= from && id < to on the canonical texts.
TextInPartition(id, from, to) ==
    /\ ~StrLess(String(id), String(from))
    /\ StrLess(String(id), String(to))

\* The same test, tabulated once for the identifiers in play.
PartitionTable ==
    [ id \in {NilUUID, MaxUUID} \cup IdPool |->
        [ from \in {NilUUID, MaxUUID} \cup IdPool |->
            [ to \in {NilUUID, MaxUUID} \cup IdPool |-> TextInPartition(id, from, to) ] ] ]

InPartition(id, from, to) ==
    IF {id, from, to} \subseteq DOMAIN PartitionTable
    THEN PartitionTable[id][from][to]
    ELSE TextInPartition(id, from, to)

----------------------------------------------------------------------------
(* Records and inputs *)

URLs == {"a", "b"}

Times == 0..MaxTime

\* Thresholds a caller may pass: every time and one later than all of them.
Thresholds == 0..(MaxTime + 1)

Link(id, url, ts) == [ID |-> id, URL |-> url, RetrievedAt |-> ts]

Edge(id, src, dst, ts) == [ID |-> id, Src |-> src, Dst |-> dst, UpdatedAt |-> ts]

\* Identifiers a caller may pass: uuid.Nil, every generated one, the largest one.
ArgIds == {NilUUID, MaxUUID} \cup IdPool

\* Links a caller passes to UpsertLink; the ID on entry is arbitrary.
LinkArgs == { Link(id, u, ts) : id \in {NilUUID, UuidOf(1)}, u \in URLs, ts \in Times }

\* The links passed while the edge operations are explored: one retrieval time.
LinkArgsFixedTime == { l \in LinkArgs : l.ID = NilUUID /\ l.RetrievedAt = 0 }

\* Edges a caller passes to UpsertEdge; ID and UpdatedAt on entry are arbitrary
\* (the code overwrites both), endpoints are stored or unknown identifiers.
EdgeArgs == { Edge(UuidOf(1), s, d, MaxTime) : s \in IdPool, d \in IdPool }

\* The links passed while iterators are held: each URL at time 0, and the
\* first URL retrieved again at the latest time.
LinkArgsRefetch == LinkArgsFixedTime \cup { Link(NilUUID, "a", MaxTime) }

\* The edges passed while iterators are held: from a link to itself.
EdgeArgsLoop == { e \in EdgeArgs : e.Src = e.Dst }

\* Error values returned by the operations (nil or a wrapped sentinel).
NoError == "nil"
\* The call does not return: a nil pointer is dereferenced.
Panic == "panic"
ErrNotFound == "not found"
ErrUnknownEdgeLinks == "unknown source and/or destination for edge"

NoCall == [op |-> "none"]

\* No iterator is held.
NoIter == [kind |-> "none"]

\* The goroutines that call the graph at the same time.
Threads == {"t1", "t2"}

NoThread == "none"

\* An idle goroutine has no request and no locals.
Idle == [op |-> "none"]

\* The goroutine that makes the calls taken as single steps.
Caller == "t1"

\* s.mu.Lock() returns: no goroutine holds the lock.  A call that takes the
\* lock blocks otherwise.
CanLock == mu.writer = NoThread /\ mu.readers = {}

\* s.mu.RLock() returns: no goroutine holds the lock for writing.
CanRLock == mu.writer = NoThread

\* No pointer is held.
NoPointer == [kind |-> "none"]

\* What a caller assigns to a record it holds once the call has returned.
LinkScribble == Link(NilUUID, "", MaxTime + 1)
EdgeScribble == Edge(NilUUID, NilUUID, NilUUID, MaxTime + 1)

----------------------------------------------------------------------------
(* Initial state: NewInMemoryGraph *)

Init ==
    /\ linkObjs = << >>
    /\ links = << >>
    /\ linkURLIndex = << >>
    /\ edges = << >>
    /\ linkEdgeMap = << >>
    /\ now = 0
    /\ call = NoCall
    /\ repeated = FALSE
    /\ maxSubmitted = << >>
    /\ firstID = << >>
    /\ iter = NoIter
    /\ found = NoPointer
    /\ passed = NoPointer
    /\ mu = [writer |-> NoThread, readers |-> {}]
    /\ pc = [t \in Threads |-> "idle"]
    /\ req = [t \in Threads |-> Idle]
    /\ tmp = [t \in Threads |-> Idle]

----------------------------------------------------------------------------
(* Helpers on the store *)

\* f with key k set to v (a Go map assignment m[k] = v).
MapSet(f, k, v) == (k :> v) @@ f

\* f without the keys in ks (Go delete(m, k) for each k in ks).
MapDelete(f, ks) == [k \in DOMAIN f \ ks |-> f[k]]

\* s.linkEdgeMap[id]: the nil slice when the key is absent.
EdgeListOf(id) == IF id \in DOMAIN linkEdgeMap THEN linkEdgeMap[id] ELSE << >>

\* s.linkEdgeMap[id] = list, an empty list being the absent key.
SetEdgeList(id, list) ==
    IF list = << >> THEN MapDelete(linkEdgeMap, {id}) ELSE MapSet(linkEdgeMap, id, list)

\* *s.links[id]: the record behind the stored pointer.
LinkAt(id) == linkObjs[links[id]]

\* Mutant of FreshIds: the generated identifier is not checked for a collision.
AnyIds(used) == IdPool

\* The outcome of the retry loop around uuid.New(): an identifier that is
\* not a key of the map it is checked against.
FreshIds(used) == IdPool \ used

\* The call is recorded.
Called(c) ==
    /\ call' = c
    /\ repeated' = FALSE

----------------------------------------------------------------------------
(* UpsertLink *)

\* Mutant of KeepNewest: the submitted timestamp always wins.
KeepLatest(origTs, newTs) == newTs

\* if origTs > existing.RetrievedAt { existing.RetrievedAt = origTs }
KeepNewest(origTs, newTs) == IF origTs > newTs THEN origTs ELSE newTs

\* History kept for the properties: what was submitted and what was first returned.
Record(in, out) ==
    /\ maxSubmitted' =
         MapSet(maxSubmitted, in.URL,
                IF in.URL \in DOMAIN maxSubmitted /\ maxSubmitted[in.URL] > in.RetrievedAt
                THEN maxSubmitted[in.URL] ELSE in.RetrievedAt)
    /\ firstID' = IF in.URL \in DOMAIN firstID THEN firstID
                  ELSE MapSet(firstID, in.URL, out.ID)

\* A link with this URL exists: the call becomes an update of that record.
UpsertLinkUpdate(link) ==
    /\ CanLock
    /\ link.URL \in DOMAIN linkURLIndex
    /\ LET a        == linkURLIndex[link.URL]
           existing == linkObjs[a]
           out      == [link EXCEPT !.ID = existing.ID]
           origTs   == existing.RetrievedAt
           stored   == [out EXCEPT !.RetrievedAt = KeepNewest(origTs, out.RetrievedAt)]
       IN  /\ linkObjs' = [linkObjs EXCEPT ![a] = stored]
           /\ Called([op |-> "UpsertLink", in |-> link, out |-> out, err |-> NoError])
           /\ Record(link, out)
    /\ UNCHANGED <<links, linkURLIndex, edges, linkEdgeMap, now>>

\* No link with this URL: assign a new ID and insert a copy into both maps.
UpsertLinkInsert(link) ==
    /\ CanLock
    /\ link.URL \notin DOMAIN linkURLIndex
    /\ \E id \in FreshIds(DOMAIN links) :
         LET out == [link EXCEPT !.ID = id]
             a   == Len(linkObjs) + 1
         IN  /\ linkObjs' = Append(linkObjs, out)
             /\ linkURLIndex' = MapSet(linkURLIndex, out.URL, a)
             /\ links' = MapSet(links, out.ID, a)
             /\ Called([op |-> "UpsertLink", in |-> link, out |-> out, err |-> NoError])
             /\ Record(link, out)
    /\ UNCHANGED <<edges, linkEdgeMap, now>>

UpsertLink(link) == UpsertLinkUpdate(link) \/ UpsertLinkInsert(link)

----------------------------------------------------------------------------
(* FindLink *)

\* Mutant of FindLink: the nil check is missing, an absent ID yields a zero Link.
FindLinkUnchecked(id) ==
    /\ CanRLock
    /\ Called([op |-> "FindLink", id |-> id,
               out |-> IF id \in DOMAIN links THEN LinkAt(id) ELSE Link(NilUUID, "", 0),
               err |-> NoError])
    /\ UNCHANGED <<store, now, history>>

FindLink(id) ==
    /\ CanRLock
    /\ IF id \notin DOMAIN links
       THEN Called([op |-> "FindLink", id |-> id, err |-> ErrNotFound])
       ELSE Called([op |-> "FindLink", id |-> id, out |-> LinkAt(id), err |-> NoError])
    /\ UNCHANGED <<store, now, history>>

----------------------------------------------------------------------------
(* Links *)

\* The sequences that list every element of S once.
RECURSIVE Arrangements(_)
Arrangements(S) ==
    IF S = {} THEN { << >> }
    ELSE UNION { { << k >> \o o : o \in Arrangements(S \ {k}) } : k \in S }

\* The same, tabulated once for the key sets a link map can have.
PermutationTable == [ S \in SUBSET IdPool |-> Arrangements(S) ]

\* The orders in which a range over a map with key set S may visit the keys.
Orders(S) == IF S \in DOMAIN PermutationTable THEN PermutationTable[S] ELSE Arrangements(S)

\* id >= from && id < to && link.RetrievedAt < retrievedBefore
LinkSelected(id, fromID, toID, retrievedBefore) ==
    InPartition(id, fromID, toID) /\ LinkAt(id).RetrievedAt < retrievedBefore

\* The list the loop builds when it visits the keys in this order: pointers
\* to the selected records.
LinkList(order, fromID, toID, retrievedBefore) ==
    LET sel == SelectSeq(order, LAMBDA id : LinkSelected(id, fromID, toID, retrievedBefore))
    IN  [i \in DOMAIN sel |-> links[sel[i]]]

Links(order, fromID, toID, retrievedBefore) ==
    /\ CanRLock
    /\ Called([op |-> "Links", fromID |-> fromID, toID |-> toID,
               retrievedBefore |-> retrievedBefore,
               out |-> LinkList(order, fromID, toID, retrievedBefore),
               err |-> NoError])
    /\ UNCHANGED <<store, now, history>>

----------------------------------------------------------------------------
(* UpsertEdge *)

\* Mutant of UnknownEndpoint: only the source is looked up.
UnknownSrc(edge) == edge.Src \notin DOMAIN links

\* Mutant of UnknownEndpoint: rejected only when both endpoints are unknown.
UnknownBoth(edge) == edge.Src \notin DOMAIN links /\ edge.Dst \notin DOMAIN links

\* !srcExists || !dstExists
UnknownEndpoint(edge) == edge.Src \notin DOMAIN links \/ edge.Dst \notin DOMAIN links

\* Mutant of SamePair: the endpoints are compared crosswise.
SamePairSwapped(existingEdge, edge) ==
    existingEdge.Src = edge.Dst /\ existingEdge.Dst = edge.Src

\* existingEdge.Src == edge.Src && existingEdge.Dst == edge.Dst
SamePair(existingEdge, edge) ==
    existingEdge.Src = edge.Src /\ existingEdge.Dst = edge.Dst

\* The position of the first entry of the list that is no key of s.edges,
\* or 0: s.edges[edgeID] is nil there.
FirstMissing(list) ==
    IF \A i \in DOMAIN list : list[i] \in DOMAIN edges
    THEN 0
    ELSE CHOOSE i \in DOMAIN list :
            /\ list[i] \notin DOMAIN edges
            /\ \A j \in 1..(i - 1) : list[j] \in DOMAIN edges

\* The entries a loop over the list reads before it meets a nil edge.
Scanned(list) ==
    IF FirstMissing(list) = 0 THEN list ELSE SubSeq(list, 1, FirstMissing(list) - 1)

\* Positions in the source's edge list, up to the first nil edge, whose edge
\* joins the same pair.
Matches(edge) ==
    LET list == Scanned(EdgeListOf(edge.Src))
    IN  { i \in DOMAIN list : SamePair(edges[list[i]], edge) }

\* The first such edge, the one the scan returns on.
FirstMatch(edge) ==
    EdgeListOf(edge.Src)[CHOOSE i \in Matches(edge) : \A j \in Matches(edge) : i <= j]

\* Mutant of Refreshed: the existing edge is returned without a new UpdatedAt.
NotRefreshed(existingEdge) == existingEdge

\* existingEdge.UpdatedAt = time.Now().Unix()
Refreshed(existingEdge) == [existingEdge EXCEPT !.UpdatedAt = now]

UpsertEdgeUnknown(edge) ==
    /\ CanLock
    /\ UnknownEndpoint(edge)
    /\ Called([op |-> "UpsertEdge", in |-> edge, out |-> edge, err |-> ErrUnknownEdgeLinks])
    /\ UNCHANGED <<store, now, history>>

UpsertEdgeUpdate(edge) ==
    /\ CanLock
    /\ ~UnknownEndpoint(edge)
    /\ Matches(edge) # {}
    /\ LET eid     == FirstMatch(edge)
           updated == Refreshed(edges[eid])
       IN  /\ edges' = [edges EXCEPT ![eid] = updated]
           /\ Called([op |-> "UpsertEdge", in |-> edge, out |-> updated, err |-> NoError])
    /\ UNCHANGED <<linkStore, linkEdgeMap, now, history>>

\* The scan finds no edge of the pair: it panics on a nil edge of the list,
\* and otherwise the edge is inserted.
UpsertEdgeInsert(edge) ==
    /\ CanLock
    /\ ~UnknownEndpoint(edge)
    /\ Matches(edge) = {}
    /\ IF FirstMissing(EdgeListOf(edge.Src)) # 0
       THEN /\ Called([op |-> "UpsertEdge", in |-> edge, out |-> edge, err |-> Panic])
            /\ UNCHANGED <<edges, linkEdgeMap>>
       ELSE /\ Cardinality(DOMAIN edges) < MaxEdges
            /\ \E id \in FreshIds(DOMAIN edges) :
                 LET out == [edge EXCEPT !.ID = id, !.UpdatedAt = now]
                 IN  /\ edges' = MapSet(edges, out.ID, out)
                     /\ linkEdgeMap' = SetEdgeList(edge.Src, Append(EdgeListOf(edge.Src), out.ID))
                     /\ Called([op |-> "UpsertEdge", in |-> edge, out |-> out, err |-> NoError])
    /\ UNCHANGED <<linkStore, now, history>>

UpsertEdge(edge) ==
    UpsertEdgeUnknown(edge) \/ UpsertEdgeUpdate(edge) \/ UpsertEdgeInsert(edge)

----------------------------------------------------------------------------
(* Edges *)

\* edge.UpdatedAt < updatedBefore, for the edges of one link's list, in order.
EdgesOfLink(linkID, updatedBefore) ==
    LET sel == SelectSeq(EdgeListOf(linkID), LAMBDA eid : edges[eid].UpdatedAt < updatedBefore)
    IN  [i \in DOMAIN sel |-> sel[i]]

\* Mutant of EdgeList: the links outside the range are scanned too.
RECURSIVE EdgeListUnranged(_, _, _, _)
EdgeListUnranged(order, fromID, toID, updatedBefore) ==
    IF order = << >> THEN << >>
    ELSE EdgesOfLink(Head(order), updatedBefore)
            \o EdgeListUnranged(Tail(order), fromID, toID, updatedBefore)

\* The list the loops build when the links are visited in this order: the
\* edges (by ID) of the links in [fromID, toID) updated before the threshold.
RECURSIVE EdgeList(_, _, _, _)
EdgeList(order, fromID, toID, updatedBefore) ==
    IF order = << >> THEN << >>
    ELSE LET linkID == Head(order)
             rest   == EdgeList(Tail(order), fromID, toID, updatedBefore)
         IN  IF ~InPartition(linkID, fromID, toID) THEN rest
             ELSE EdgesOfLink(linkID, updatedBefore) \o rest

\* The list of a link in the range names an edge ID that s.edges does not
\* hold: edge.UpdatedAt dereferences nil.
EdgesPanics(fromID, toID) ==
    \E linkID \in DOMAIN links :
        /\ InPartition(linkID, fromID, toID)
        /\ FirstMissing(EdgeListOf(linkID)) # 0

\* RUnlock() is not deferred: a panic in the loops leaves the read lock held
\* by the caller.
Edges(order, fromID, toID, updatedBefore) ==
    /\ CanRLock
    /\ IF EdgesPanics(fromID, toID)
       THEN /\ Called([op |-> "Edges", fromID |-> fromID, toID |-> toID,
                       updatedBefore |-> updatedBefore, out |-> << >>, err |-> Panic])
            /\ mu' = [mu EXCEPT !.readers = mu.readers \cup {Caller}]
            /\ pc' = [pc EXCEPT ![Caller] = "panic"]
       ELSE /\ Called([op |-> "Edges", fromID |-> fromID, toID |-> toID,
                       updatedBefore |-> updatedBefore,
                       out |-> EdgeList(order, fromID, toID, updatedBefore),
                       err |-> NoError])
            /\ UNCHANGED <<mu, pc>>
    /\ UNCHANGED <<store, now, history>>

----------------------------------------------------------------------------
(* Pointers held by callers *)

\* A pointer to a record that nothing else points to, holding this value.
Own(kind, rec) == [kind |-> kind, own |-> TRUE, val |-> rec]

\* A pointer to a record of the store: the Link at a heap address, or the
\* Edge the edge map holds under an ID.
Stored(kind, at) == [kind |-> kind, own |-> FALSE, at |-> at]

\* *p, the record behind a pointer.
Deref(p) == IF p.own THEN p.val
            ELSE IF p.kind = "link" THEN linkObjs[p.at] ELSE edges[p.at]

\* Mutant of FoundLink: FindLink returns the stored pointer.
FoundStored(a) == Stored("link", a)

\* lCopy := new(graph.Link); *lCopy = *link; return lCopy
FoundLink(a) == Own("link", linkObjs[a])

\* Mutant of PassedLink: the maps keep the caller's pointer.
PassedLinkKept(out, a) == Stored("link", a)

\* The caller's pointer once UpsertLink has returned: the maps hold lCopy
\* (insert) or received the value by *existing = *link (update), so the
\* caller's record, with the ID written back, is referenced by it alone.
PassedLink(out, a) == Own("link", out)

\* Mutant of PassedEdge: the edge map keeps the caller's pointer.
PassedEdgeKept(out) ==
    IF out.ID \in DOMAIN edges' THEN Stored("edge", out.ID) ELSE Own("edge", out)

\* The caller's pointer once UpsertEdge has returned: the edge map holds
\* eCopy (insert) or gave its value by *edge = *existingEdge (update).
PassedEdge(out) == Own("edge", out)

\* The store after *p = rec.
AssignThrough(p, rec) ==
    IF p.own THEN UNCHANGED store
    ELSE IF p.kind = "link"
         THEN /\ linkObjs' = [linkObjs EXCEPT ![p.at] = rec]
              /\ UNCHANGED <<links, linkURLIndex, edges, linkEdgeMap>>
         ELSE /\ edges' = [edges EXCEPT ![p.at] = rec]
              /\ UNCHANGED <<linkStore, linkEdgeMap>>

\* The pointer after *p = rec.
Assigned(p, rec) == IF p.own THEN [p EXCEPT !.val = rec] ELSE p

\* The caller of FindLink assigns to the record it was given.
AssignFound ==
    /\ found.kind = "link"
    /\ Deref(found) # LinkScribble
    /\ AssignThrough(found, LinkScribble)
    /\ found' = Assigned(found, LinkScribble)
    /\ Called([op |-> "Assign", to |-> "found"])
    /\ UNCHANGED <<now, history, iter, passed>>

\* The caller of UpsertLink or UpsertEdge assigns to the record it passed.
AssignPassed ==
    /\ passed.kind # "none"
    /\ LET rec == IF passed.kind = "link" THEN LinkScribble ELSE EdgeScribble
       IN  /\ IF passed.own \/ passed.kind = "link" THEN TRUE
              ELSE passed.at \in DOMAIN edges
           /\ Deref(passed) # rec
           /\ AssignThrough(passed, rec)
           /\ passed' = Assigned(passed, rec)
    /\ Called([op |-> "Assign", to |-> "passed"])
    /\ UNCHANGED <<now, history, iter, found>>

----------------------------------------------------------------------------
(* Iterators *)

\* &linkIterator{s: s, links: list}: the list holds the pointers the scan
\* appended; snap is history, the records behind them at that moment.
LinkIterator(list) ==
    [kind |-> "links", list |-> list, cursor |-> 0, gone |-> << >>,
     snap |-> [i \in DOMAIN list |-> linkObjs[list[i]]]]

\* &edgeIterator{s: s, edges: list}: the list holds pointers to the stored
\* Edge records, written as their IDs; gone maps the positions whose record
\* has left the edge map to that record, which the pointer keeps alive.
EdgeIterator(list) ==
    [kind |-> "edges", list |-> list, cursor |-> 0, gone |-> << >>,
     snap |-> [i \in DOMAIN list |-> edges[list[i]]]]

\* delete(s.edges, edgeID) unlinks the record from the map; a pointer held in
\* an iterator's list still reaches it, with the values it had.
Detached(removed) ==
    IF iter.kind # "edges" THEN iter
    ELSE LET hit == { i \in DOMAIN iter.list \ DOMAIN iter.gone : iter.list[i] \in removed }
         IN  [iter EXCEPT !.gone = [i \in hit |-> edges[iter.list[i]]] @@ iter.gone]

\* *i.links[i.curIndex]
LinkBehind(i) == linkObjs[iter.list[i]]

\* *i.edges[i.curIndex]
EdgeBehind(i) == IF i \in DOMAIN iter.gone THEN iter.gone[i] ELSE edges[iter.list[i]]

\* Iterator.Next(): advance the cursor while an item is left.
IterNext ==
    /\ iter.kind # "none"
    /\ iter.cursor < Len(iter.list)
    /\ iter' = [iter EXCEPT !.cursor = iter.cursor + 1]
    /\ Called([op |-> "Next", out |-> TRUE])
    /\ UNCHANGED <<store, now, history>>

\* LinkIterator.Link(): a copy of the item at the cursor.
IterLink ==
    /\ iter.kind = "links"
    /\ iter.cursor \in DOMAIN iter.list
    /\ Called([op |-> "Link", out |-> LinkBehind(iter.cursor)])
    /\ UNCHANGED <<store, now, history, iter>>

\* EdgeIterator.Edge(): a copy of the item at the cursor.
IterEdge ==
    /\ iter.kind = "edges"
    /\ iter.cursor \in DOMAIN iter.list
    /\ Called([op |-> "Edge", out |-> EdgeBehind(iter.cursor)])
    /\ UNCHANGED <<store, now, history, iter>>

\* Iterator.Close(): the caller drops the iterator.
IterClose ==
    /\ iter.kind # "none"
    /\ iter' = NoIter
    /\ Called([op |-> "Close", err |-> NoError])
    /\ UNCHANGED <<store, now, history>>

----------------------------------------------------------------------------
(* RemoveStaleEdges *)

\* Mutant of IsStale: an edge updated exactly at the threshold is stale too.
IsStaleInclusive(edge, updatedBefore) == edge.UpdatedAt <= updatedBefore

\* edge.UpdatedAt < updatedBefore
IsStale(edge, updatedBefore) == edge.UpdatedAt < updatedBefore

\* Mutant of KeptList: the loop starts at the second entry of the list.
KeptListSkipsFirst(list, updatedBefore) ==
    SelectSeq(SubSeq(list, 2, Len(list)), LAMBDA eid : edges[eid].UpdatedAt >= updatedBefore)

\* newEdgeList: the edge IDs of the list that are not stale, in order.
KeptList(list, updatedBefore) ==
    SelectSeq(list, LAMBDA eid : ~IsStale(edges[eid], updatedBefore))

\* Mutant of Deleted: the stale edges stay in the edge map.
DeletedNone(list, updatedBefore) == {}

\* Mutant of Deleted: every stale edge is deleted, whatever its source.
DeletedAnywhere(list, updatedBefore) ==
    { k \in DOMAIN edges : edges[k].UpdatedAt < updatedBefore }

\* The edge IDs of the list that the loop deletes from s.edges.
Deleted(list, updatedBefore) ==
    { list[i] : i \in { j \in DOMAIN list : IsStale(edges[list[j]], updatedBefore) } }

\* The position at which the loop of RemoveStaleEdges reads a nil edge, or 0:
\* the entry is no key of s.edges, or an earlier round deleted it.
PruneMissing(list, updatedBefore) ==
    LET nil(i) == IF list[i] \notin DOMAIN edges
                  THEN TRUE
                  ELSE /\ IsStale(edges[list[i]], updatedBefore)
                       /\ \E j \in 1..(i - 1) : list[j] = list[i]
    IN  IF \A i \in DOMAIN list : ~nil(i)
        THEN 0
        ELSE CHOOSE i \in DOMAIN list : nil(i) /\ \A j \in 1..(i - 1) : ~nil(j)

\* On a nil edge the loop panics: the deletes of the earlier rounds are
\* done and the list is not replaced.
RemoveStaleEdges(fromID, updatedBefore) ==
    /\ CanLock
    /\ LET list == EdgeListOf(fromID)
       IN  IF PruneMissing(list, updatedBefore) = 0
           THEN /\ edges' = MapDelete(edges, Deleted(list, updatedBefore))
                /\ linkEdgeMap' = SetEdgeList(fromID, KeptList(list, updatedBefore))
                /\ call' = [op |-> "RemoveStaleEdges", fromID |-> fromID,
                            updatedBefore |-> updatedBefore, err |-> NoError,
                            removed |-> Deleted(list, updatedBefore)]
           ELSE LET read == SubSeq(list, 1, PruneMissing(list, updatedBefore) - 1)
                IN  /\ edges' = MapDelete(edges, Deleted(read, updatedBefore))
                    /\ linkEdgeMap' = linkEdgeMap
                    /\ call' = [op |-> "RemoveStaleEdges", fromID |-> fromID,
                                updatedBefore |-> updatedBefore, err |-> Panic,
                                removed |-> Deleted(read, updatedBefore)]
    /\ repeated' = /\ call.op = "RemoveStaleEdges"
                   /\ call.fromID = fromID
                   /\ call.updatedBefore = updatedBefore
    /\ UNCHANGED <<linkStore, now, history>>

----------------------------------------------------------------------------
(* Overlapping calls: the operations step by step under s.mu *)

\* Mutant of LockKind: UpsertLink takes the lock for reading.
LockKindLinkShared(op) == IF op \in {"UpsertEdge", "RemoveStaleEdges"} THEN "w" ELSE "r"

\* Mutant of LockKind: RemoveStaleEdges takes the lock for reading.
LockKindPruneShared(op) == IF op \in {"UpsertLink", "UpsertEdge"} THEN "w" ELSE "r"

\* s.mu.Lock() in the three writers, s.mu.RLock() in the three readers.
LockKind(op) ==
    IF op \in {"UpsertLink", "UpsertEdge", "RemoveStaleEdges"} THEN "w" ELSE "r"

\* Mutant of Exit: a return with an error skips the unlock.
ExitLeaksOnError(err) == IF err = NoError THEN "unlock" ELSE "idle"

\* defer s.mu.Unlock() / defer s.mu.RUnlock(): every return passes the unlock.
Exit(err) == "unlock"

\* The calls the goroutines make: scans over the whole identifier space,
\* prunings with the largest threshold.
Requests ==
    { [op |-> "UpsertLink", link |-> l] : l \in LinkArgsFixedTime }
    \cup { [op |-> "UpsertEdge", edge |-> e] : e \in EdgeArgsLoop }
    \cup { [op |-> "RemoveStaleEdges", fromID |-> f, updatedBefore |-> MaxTime + 1] :
             f \in IdPool }
    \cup { [op |-> "FindLink", id |-> i] : i \in IdPool }
    \cup { [op |-> "Links"], [op |-> "Edges"] }

\* The goroutine is between its lock and its unlock.
InSection(t) == pc[t] \in {"body", "gen", "replace", "unlock", "unwind"}

\* A goroutine has called Lock() and waits: RLock() blocks until it is served.
WriterWaiting == \E u \in Threads : pc[u] = "lock" /\ LockKind(req[u].op) = "w"

\* The list of this link names an edge ID that s.edges does not hold;
\* dereferencing s.edges[edgeID] then panics.
Dangling(id) == \E i \in DOMAIN EdgeListOf(id) : EdgeListOf(id)[i] \notin DOMAIN edges

\* A goroutine calls an operation.  No UpsertEdge is started that could
\* take the number of stored edges over MaxEdges.
Begin(t, r) ==
    /\ pc[t] = "idle"
    /\ r.op = "UpsertEdge" =>
          Cardinality(DOMAIN edges)
            + Cardinality({ u \in Threads : req[u].op = "UpsertEdge" }) < MaxEdges
    /\ pc' = [pc EXCEPT ![t] = "lock"]
    /\ req' = [req EXCEPT ![t] = r]
    /\ UNCHANGED <<store, now, call, repeated, history, client, mu, tmp>>

\* s.mu.Lock() or s.mu.RLock() returns.
Acquire(t) ==
    /\ pc[t] = "lock"
    /\ mu.writer = NoThread
    /\ IF LockKind(req[t].op) = "w"
       THEN /\ mu.readers = {}
            /\ mu' = [mu EXCEPT !.writer = t]
       ELSE /\ ~WriterWaiting
            /\ mu' = [mu EXCEPT !.readers = mu.readers \cup {t}]
    /\ pc' = [pc EXCEPT ![t] = "body"]
    /\ UNCHANGED <<store, now, call, repeated, history, client, req, tmp>>

\* s.mu.Unlock() or s.mu.RUnlock(), and the return to the caller.  A
\* panicking UpsertEdge or RemoveStaleEdges runs its deferred Unlock() too,
\* and does not return.
Release(t) ==
    /\ pc[t] \in {"unlock", "unwind"}
    /\ mu' = IF mu.writer = t THEN [mu EXCEPT !.writer = NoThread]
             ELSE [mu EXCEPT !.readers = mu.readers \ {t}]
    /\ pc' = [pc EXCEPT ![t] = IF pc[t] = "unwind" THEN "panic" ELSE "idle"]
    /\ req' = [req EXCEPT ![t] = Idle]
    /\ tmp' = [tmp EXCEPT ![t] = Idle]
    /\ UNCHANGED <<store, now, call, repeated, history, client>>

\* UpsertLink up to the retry loop: the URL lookup and, for a known URL, the update.
LinkLookup(t) ==
    /\ pc[t] = "body"
    /\ req[t].op = "UpsertLink"
    /\ LET link == req[t].link
       IN  IF link.URL \in DOMAIN linkURLIndex
           THEN LET a        == linkURLIndex[link.URL]
                    existing == linkObjs[a]
                    out      == [link EXCEPT !.ID = existing.ID]
                    stored   == [out EXCEPT !.RetrievedAt =
                                    KeepNewest(existing.RetrievedAt, out.RetrievedAt)]
                IN  /\ linkObjs' = [linkObjs EXCEPT ![a] = stored]
                    /\ Record(link, out)
                    /\ tmp' = [tmp EXCEPT ![t] = [out |-> out, err |-> NoError]]
                    /\ pc' = [pc EXCEPT ![t] = Exit(NoError)]
           ELSE /\ tmp' = [tmp EXCEPT ![t] = [out |-> link, err |-> NoError]]
                /\ pc' = [pc EXCEPT ![t] = "gen"]
                /\ UNCHANGED <<linkObjs, history>>
    /\ UNCHANGED <<links, linkURLIndex, edges, linkEdgeMap, now, call, repeated,
                   client, mu, req>>

\* One round of the loop: link.ID = uuid.New() is a key of s.links, go round again.
LinkGenCollide(t) ==
    /\ pc[t] = "gen"
    /\ req[t].op = "UpsertLink"
    /\ \E id \in IdPool \ FreshIds(DOMAIN links) :
          tmp' = [tmp EXCEPT ![t].out.ID = id]
    /\ UNCHANGED <<store, now, call, repeated, history, client, mu, pc, req>>

\* The last round: the ID is new, the loop breaks and the copy is inserted.
LinkGenFresh(t) ==
    /\ pc[t] = "gen"
    /\ req[t].op = "UpsertLink"
    /\ \E id \in FreshIds(DOMAIN links) :
         LET out == [tmp[t].out EXCEPT !.ID = id]
             a   == Len(linkObjs) + 1
         IN  /\ linkObjs' = Append(linkObjs, out)
             /\ linkURLIndex' = MapSet(linkURLIndex, out.URL, a)
             /\ links' = MapSet(links, out.ID, a)
             /\ Record(req[t].link, out)
             /\ tmp' = [tmp EXCEPT ![t] = [out |-> out, err |-> NoError]]
    /\ pc' = [pc EXCEPT ![t] = Exit(NoError)]
    /\ UNCHANGED <<edges, linkEdgeMap, now, call, repeated, client, mu, req>>

\* UpsertEdge up to the retry loop: the endpoint check, the scan of the
\* source's list and, for a known pair, the update.  The scan returns at the
\* first edge of the pair; it panics on a nil edge it reads before that.
EdgeCheck(t) ==
    /\ pc[t] = "body"
    /\ req[t].op = "UpsertEdge"
    /\ LET edge == req[t].edge
       IN  IF UnknownEndpoint(edge)
           THEN /\ tmp' = [tmp EXCEPT ![t] = [out |-> edge, err |-> ErrUnknownEdgeLinks]]
                /\ pc' = [pc EXCEPT ![t] = Exit(ErrUnknownEdgeLinks)]
                /\ UNCHANGED edges
           ELSE IF Matches(edge) # {}
           THEN LET updated == Refreshed(edges[FirstMatch(edge)])
                IN  /\ edges' = [edges EXCEPT ![FirstMatch(edge)] = updated]
                    /\ tmp' = [tmp EXCEPT ![t] = [out |-> updated, err |-> NoError]]
                    /\ pc' = [pc EXCEPT ![t] = Exit(NoError)]
           ELSE IF FirstMissing(EdgeListOf(edge.Src)) # 0
           THEN /\ pc' = [pc EXCEPT ![t] = "unwind"]
                /\ UNCHANGED <<edges, tmp>>
           ELSE /\ tmp' = [tmp EXCEPT ![t] = [out |-> edge, err |-> NoError]]
                /\ pc' = [pc EXCEPT ![t] = "gen"]
                /\ UNCHANGED edges
    /\ UNCHANGED <<linkStore, linkEdgeMap, now, call, repeated, history, client, mu, req>>

\* One round of the loop: edge.ID = uuid.New() is a key of s.edges, go round again.
EdgeGenCollide(t) ==
    /\ pc[t] = "gen"
    /\ req[t].op = "UpsertEdge"
    /\ \E id \in IdPool \ FreshIds(DOMAIN edges) :
          tmp' = [tmp EXCEPT ![t].out.ID = id]
    /\ UNCHANGED <<store, now, call, repeated, history, client, mu, pc, req>>

\* The last round: the ID is new, the copy is inserted and appended to the list.
EdgeGenFresh(t) ==
    /\ pc[t] = "gen"
    /\ req[t].op = "UpsertEdge"
    /\ \E id \in FreshIds(DOMAIN edges) :
         LET out == [tmp[t].out EXCEPT !.ID = id, !.UpdatedAt = now]
         IN  /\ edges' = MapSet(edges, out.ID, out)
             /\ linkEdgeMap' = SetEdgeList(out.Src, Append(EdgeListOf(out.Src), out.ID))
             /\ tmp' = [tmp EXCEPT ![t] = [out |-> out, err |-> NoError]]
    /\ pc' = [pc EXCEPT ![t] = Exit(NoError)]
    /\ UNCHANGED <<linkStore, now, call, repeated, history, client, mu, req>>

\* The loop of RemoveStaleEdges: the stale edges leave s.edges, the others
\* are collected in newEdgeList.  On a nil edge the loop panics, the deletes
\* of the earlier rounds done and the list not replaced.
PruneDelete(t) ==
    /\ pc[t] = "body"
    /\ req[t].op = "RemoveStaleEdges"
    /\ LET list == EdgeListOf(req[t].fromID)
           stop == PruneMissing(list, req[t].updatedBefore)
       IN  IF stop # 0
           THEN /\ edges' = MapDelete(edges, Deleted(SubSeq(list, 1, stop - 1),
                                                     req[t].updatedBefore))
                /\ pc' = [pc EXCEPT ![t] = "unwind"]
                /\ UNCHANGED tmp
           ELSE /\ edges' = MapDelete(edges, Deleted(list, req[t].updatedBefore))
                /\ tmp' = [tmp EXCEPT ![t] = [kept |-> KeptList(list, req[t].updatedBefore),
                                              err |-> NoError]]
                /\ pc' = [pc EXCEPT ![t] = "replace"]
    /\ UNCHANGED <<linkStore, linkEdgeMap, now, call, repeated, history, client, mu, req>>

\* s.linkEdgeMap[fromID] = newEdgeList
PruneReplace(t) ==
    /\ pc[t] = "replace"
    /\ linkEdgeMap' = SetEdgeList(req[t].fromID, tmp[t].kept)
    /\ pc' = [pc EXCEPT ![t] = Exit(NoError)]
    /\ UNCHANGED <<linkStore, edges, now, call, repeated, history, client, mu, req, tmp>>

\* The body of FindLink.
FindRead(t) ==
    /\ pc[t] = "body"
    /\ req[t].op = "FindLink"
    /\ IF req[t].id \notin DOMAIN links
       THEN /\ tmp' = [tmp EXCEPT ![t] = [err |-> ErrNotFound]]
            /\ pc' = [pc EXCEPT ![t] = Exit(ErrNotFound)]
       ELSE /\ tmp' = [tmp EXCEPT ![t] = [out |-> LinkAt(req[t].id), err |-> NoError]]
            /\ pc' = [pc EXCEPT ![t] = Exit(NoError)]
    /\ UNCHANGED <<store, now, call, repeated, history, client, mu, req>>

\* The loop of Links.
LinksScan(t) ==
    /\ pc[t] = "body"
    /\ req[t].op = "Links"
    /\ \E order \in Orders(DOMAIN links) :
          tmp' = [tmp EXCEPT ![t] = [out |-> LinkList(order, NilUUID, MaxUUID, MaxTime + 1),
                                     err |-> NoError]]
    /\ pc' = [pc EXCEPT ![t] = "unlock"]
    /\ UNCHANGED <<store, now, call, repeated, history, client, mu, req>>

\* The loops of Edges.  RUnlock() is not deferred: a panic on a nil edge
\* leaves the read lock held.
EdgesScan(t) ==
    /\ pc[t] = "body"
    /\ req[t].op = "Edges"
    /\ IF EdgesPanics(NilUUID, MaxUUID)
       THEN /\ pc' = [pc EXCEPT ![t] = "panic"]
            /\ UNCHANGED tmp
       ELSE /\ \E order \in Orders(DOMAIN links) :
                  tmp' = [tmp EXCEPT ![t] =
                             [out |-> EdgeList(order, NilUUID, MaxUUID, MaxTime + 1),
                              err |-> NoError]]
            /\ pc' = [pc EXCEPT ![t] = "unlock"]
    /\ UNCHANGED <<store, now, call, repeated, history, client, mu, req>>

\* A step a goroutine takes by itself once it holds the lock, other than a
\* round of a retry loop that draws a used ID.
Proceed(t) ==
    \/ LinkLookup(t) \/ LinkGenFresh(t)
    \/ EdgeCheck(t) \/ EdgeGenFresh(t)
    \/ PruneDelete(t) \/ PruneReplace(t)
    \/ FindRead(t) \/ LinksScan(t) \/ EdgesScan(t)
    \/ Release(t)

----------------------------------------------------------------------------
(* The clock *)

Tick ==
    /\ now < MaxTime
    /\ now' = now + 1
    /\ UNCHANGED <<store, call, repeated, history>>

----------------------------------------------------------------------------
(* Specifications *)

\* All writers, the links upserted with one retrieval time.
Next ==
    \/ \E link \in LinkArgsFixedTime : UpsertLink(link) /\ UNCHANGED others
    \/ \E edge \in EdgeArgs : UpsertEdge(edge) /\ UNCHANGED others
    \/ \E fromID \in IdPool, updatedBefore \in Thresholds :
          RemoveStaleEdges(fromID, updatedBefore) /\ UNCHANGED others
    \/ Tick /\ UNCHANGED others

Spec == Init /\ [][Next]_vars

\* The link operations alone, with every retrieval time.
NextLinks ==
    \/ \E link \in LinkArgs : UpsertLink(link) /\ UNCHANGED others
    \/ \E id \in ArgIds : FindLink(id) /\ UNCHANGED others
    \/ \E order \in Orders(DOMAIN links) :
          \E fromID \in ArgIds, toID \in ArgIds, retrievedBefore \in Thresholds :
             Links(order, fromID, toID, retrievedBefore) /\ UNCHANGED others

SpecLinks == Init /\ [][NextLinks]_vars

\* The writers and the edge scan.
NextScan ==
    \/ Next
    \/ \E order \in Orders(DOMAIN links) :
          \E fromID \in ArgIds, toID \in ArgIds, updatedBefore \in Thresholds :
             Edges(order, fromID, toID, updatedBefore) /\ UNCHANGED <<client, req, tmp>>

SpecScan == Init /\ [][NextScan]_vars

\* The writers, and one caller that scans the whole identifier space with
\* the largest threshold and consumes the iterator.
NextIter ==
    \/ \E link \in LinkArgsRefetch : UpsertLink(link) /\ UNCHANGED others
    \/ \E edge \in EdgeArgsLoop : UpsertEdge(edge) /\ UNCHANGED others
    \/ \E fromID \in IdPool, updatedBefore \in Thresholds :
          /\ RemoveStaleEdges(fromID, updatedBefore)
          /\ iter' = Detached(call'.removed)
          /\ UNCHANGED <<found, passed, threads>>
    \/ Tick /\ UNCHANGED others
    \/ \E order \in Orders(DOMAIN links) :
          /\ Links(order, NilUUID, MaxUUID, MaxTime + 1)
          /\ iter' = LinkIterator(call'.out)
          /\ UNCHANGED <<found, passed, threads>>
    \/ \E order \in Orders(DOMAIN links) :
          /\ Edges(order, NilUUID, MaxUUID, MaxTime + 1)
          /\ iter' = IF call'.err = Panic THEN iter ELSE EdgeIterator(call'.out)
          /\ UNCHANGED <<found, passed, req, tmp>>
    \/ IterNext /\ UNCHANGED <<found, passed, threads>>
    \/ IterLink /\ UNCHANGED <<found, passed, threads>>
    \/ IterEdge /\ UNCHANGED <<found, passed, threads>>
    \/ IterClose /\ UNCHANGED <<found, passed, threads>>

SpecIter == Init /\ [][NextIter]_vars

\* The operations, and callers that keep the pointers they passed or were
\* given and assign to the records behind them after the call.  The clock
\* stands still: which record a pointer reaches does not depend on it.
NextAlias ==
    \/ \E link \in LinkArgsRefetch :
          /\ UpsertLink(link)
          /\ passed' = PassedLink(call'.out, linkURLIndex'[link.URL])
          /\ UNCHANGED <<iter, found, threads>>
    \/ \E edge \in EdgeArgsLoop :
          /\ UpsertEdge(edge)
          /\ passed' = PassedEdge(call'.out)
          /\ UNCHANGED <<iter, found, threads>>
    \/ \E id \in ArgIds :
          /\ FindLink(id)
          /\ found' = IF call'.err = NoError THEN FoundLink(links[id]) ELSE NoPointer
          /\ UNCHANGED <<iter, passed, threads>>
    \/ \E fromID \in IdPool, updatedBefore \in Thresholds :
          RemoveStaleEdges(fromID, updatedBefore) /\ UNCHANGED others
    \/ AssignFound /\ UNCHANGED threads
    \/ AssignPassed /\ UNCHANGED threads

SpecAlias == Init /\ [][NextAlias]_vars

\* All writers and the point lookup.
NextFind ==
    \/ Next
    \/ \E id \in ArgIds : FindLink(id) /\ UNCHANGED others

SpecFind == Init /\ [][NextFind]_vars

\* Goroutines calling the operations at the same time.
NextConc ==
    \E t \in Threads :
        \/ \E r \in Requests : Begin(t, r)
        \/ Acquire(t)
        \/ LinkLookup(t) \/ LinkGenCollide(t) \/ LinkGenFresh(t)
        \/ EdgeCheck(t) \/ EdgeGenCollide(t) \/ EdgeGenFresh(t)
        \/ PruneDelete(t) \/ PruneReplace(t)
        \/ FindRead(t) \/ LinksScan(t) \/ EdgesScan(t)
        \/ Release(t)

SpecConc == Init /\ [][NextConc]_vars

\* The same under fair scheduling: a goroutine that can take a step takes
\* one, a goroutine waiting for the lock gets it if it is free again and
\* again, and uuid.New() does not return used IDs for ever.
SpecConcFair ==
    /\ SpecConc
    /\ \A t \in Threads : WF_vars(Proceed(t)) /\ SF_vars(Acquire(t))

----------------------------------------------------------------------------
(* Properties *)

\* The link records the store holds: those either link map points to.
StoredLinkAddrs ==
    { links[k] : k \in DOMAIN links } \cup { linkURLIndex[u] : u \in DOMAIN linkURLIndex }

\* The IDs of the stored links.
StoredLinkIDs == { linkObjs[a].ID : a \in StoredLinkAddrs }

\* The stored link with this URL.
StoredByURL(u) == linkObjs[linkURLIndex[u]]

\* The step is a call of this operation (the clock does not move in a call).
IsCall(op) == call'.op = op /\ now' = now

\* C1  Timestamp monotonicity: for every URL ever upserted, the stored
\* RetrievedAt equals the largest RetrievedAt ever submitted for it, so an
\* upsert with an older timestamp never lowers it.
C1_TimestampMonotonicity ==
    /\ DOMAIN maxSubmitted = DOMAIN linkURLIndex
    /\ \A u \in DOMAIN maxSubmitted : StoredByURL(u).RetrievedAt = maxSubmitted[u]

\* An upsert carrying an older timestamp than the stored one has returned.
C1_Witness ==
    /\ call.op = "UpsertLink"
    /\ call.in.RetrievedAt < StoredByURL(call.in.URL).RetrievedAt

\* C2  URL uniqueness and ID stability: one stored record per URL, no two
\* stored links share an ID, distinct URLs got distinct IDs, and every
\* UpsertLink returns the ID its URL got on the first upsert, whatever ID the
\* caller's record carried on entry.
C2_UrlUniqueness ==
    /\ \A a, b \in StoredLinkAddrs :
         (linkObjs[a].URL = linkObjs[b].URL \/ linkObjs[a].ID = linkObjs[b].ID) => a = b
    /\ { linkObjs[a].URL : a \in StoredLinkAddrs } = DOMAIN firstID
    /\ \A u, v \in DOMAIN firstID : u # v => firstID[u] # firstID[v]
    /\ \A u \in DOMAIN firstID : StoredByURL(u).ID = firstID[u]
    /\ call.op = "UpsertLink" => call.out.ID = firstID[call.in.URL]

\* Two links are stored and a repeat upsert (older timestamp) whose record
\* carried another link's or an unused ID has returned the URL's own ID.
C2_Witness ==
    /\ Cardinality(StoredLinkAddrs) = 2
    /\ call.op = "UpsertLink"
    /\ call.in.ID # NilUUID
    /\ call.in.ID # call.out.ID
    /\ call.in.RetrievedAt < StoredByURL(call.in.URL).RetrievedAt

\* C3  UpsertLink write-back: on return the caller's record holds the stored
\* link's ID and the stored (maximal) RetrievedAt.
C3_UpsertLinkWriteBack ==
    call.op = "UpsertLink" =>
        /\ call.out.ID = StoredByURL(call.in.URL).ID
        /\ call.out.RetrievedAt = StoredByURL(call.in.URL).RetrievedAt

\* C4  Edge endpoint validation: an UpsertEdge whose Src or Dst is not the ID
\* of a stored link fails with UnknownEdgeLinks and changes nothing stored.
C4_EdgeEndpointValidation ==
    [][ (/\ IsCall("UpsertEdge")
         /\ (call'.in.Src \notin StoredLinkIDs \/ call'.in.Dst \notin StoredLinkIDs))
        => (call'.err = ErrUnknownEdgeLinks /\ UNCHANGED store) ]_vars

\* A rejected UpsertEdge with exactly one unknown endpoint, edges being stored.
C4_Witness ==
    /\ call.op = "UpsertEdge"
    /\ call.err = ErrUnknownEdgeLinks
    /\ (call.in.Src \in StoredLinkIDs) # (call.in.Dst \in StoredLinkIDs)
    /\ DOMAIN edges # {}

\* C5  Edge pair uniqueness: at most one stored edge per ordered pair
\* (Src, Dst), and no two stored edges share an ID.
C5_EdgePairUniqueness ==
    \A j, k \in DOMAIN edges :
        j # k => /\ edges[j].ID # edges[k].ID
                 /\ ~(edges[j].Src = edges[k].Src /\ edges[j].Dst = edges[k].Dst)

\* Two edges of one source are stored, and the older one was just upserted
\* again (it is not the last of the list, where inserts go).
C5_Witness ==
    /\ call.op = "UpsertEdge"
    /\ call.err = NoError
    /\ Len(EdgeListOf(call.out.Src)) >= 2
    /\ EdgeListOf(call.out.Src)[1] = call.out.ID

\* C6  Edge re-upsert: an UpsertEdge of a pair that has a stored edge creates
\* no edge, returns that edge's ID, and sets the stored and returned
\* UpdatedAt to the current time, never lower than it was.
C6_EdgeReupsert ==
    [][ IsCall("UpsertEdge") =>
          \A k \in DOMAIN edges :
             (edges[k].Src = call'.in.Src /\ edges[k].Dst = call'.in.Dst) =>
                 /\ call'.err = NoError
                 /\ DOMAIN edges' = DOMAIN edges
                 /\ linkEdgeMap' = linkEdgeMap
                 /\ call'.out.ID = edges[k].ID
                 /\ edges'[k] = [edges[k] EXCEPT !.UpdatedAt = now']
                 /\ call'.out = edges'[k]
                 /\ edges'[k].UpdatedAt >= edges[k].UpdatedAt ]_vars

\* The first edge of a list was upserted again after the clock moved: it is
\* now newer than the edge inserted after it.
C6_Witness ==
    /\ call.op = "UpsertEdge"
    /\ call.err = NoError
    /\ Len(EdgeListOf(call.out.Src)) >= 2
    /\ EdgeListOf(call.out.Src)[1] = call.out.ID
    /\ edges[call.out.ID].UpdatedAt = now
    /\ edges[EdgeListOf(call.out.Src)[2]].UpdatedAt < now

\* The edges a scan may return for a range and threshold, over every order.
ScannedEdges(fromID, toID, updatedBefore) ==
    UNION { LET list == EdgeList(o, fromID, toID, updatedBefore)
            IN  { list[i] : i \in DOMAIN list } : o \in Orders(DOMAIN links) }

\* After a pruning that removed edges, no scan over a range containing the
\* source returns one of them.
NoRemovedEdgeScanned ==
    (call.op = "RemoveStaleEdges" /\ call.removed # {}) =>
        \A f \in { x \in ArgIds : x <= call.fromID }, u \in { x \in ArgIds : call.fromID < x },
           b \in Thresholds :
             ScannedEdges(f, u, b) \cap call.removed = {}

\* C7  Stale pruning result: RemoveStaleEdges(src, t) deletes exactly the
\* stored edges with Src = src and UpdatedAt < t, every remaining edge of src
\* has UpdatedAt >= t, and an Edges scan over a range containing src returns
\* none of the deleted edges.
C7_StalePruningResult ==
    /\ []NoRemovedEdgeScanned
    /\ [][ IsCall("RemoveStaleEdges") =>
            LET src  == call'.fromID
                t    == call'.updatedBefore
                gone == DOMAIN edges \ DOMAIN edges'
            IN  /\ gone = { k \in DOMAIN edges : edges[k].Src = src /\ edges[k].UpdatedAt < t }
                /\ gone = call'.removed
                /\ DOMAIN edges' \subseteq DOMAIN edges
                /\ \A k \in DOMAIN edges' :
                     edges'[k].Src = src => edges'[k].UpdatedAt >= t ]_vars

\* A pruning removed an edge of the source and kept one updated exactly at
\* the threshold.
C7_Witness ==
    /\ call.op = "RemoveStaleEdges"
    /\ call.removed # {}
    /\ \E k \in DOMAIN edges :
         edges[k].Src = call.fromID /\ edges[k].UpdatedAt = call.updatedBefore

\* C8  Stale pruning frame: RemoveStaleEdges(src, t) leaves the link map, the
\* URL index and the link records, every edge of another source, and the edge
\* lists of all other links unchanged.
C8_StalePruningFrame ==
    [][ IsCall("RemoveStaleEdges") =>
          /\ UNCHANGED linkStore
          /\ \A k \in DOMAIN edges :
               edges[k].Src # call'.fromID => (k \in DOMAIN edges' /\ edges'[k] = edges[k])
          /\ \A id \in ArgIds :
               id # call'.fromID => EdgeListOf(id)' = EdgeListOf(id) ]_vars

\* A pruning removed an edge while an edge of another source is stored.
C8_Witness ==
    /\ call.op = "RemoveStaleEdges"
    /\ call.removed # {}
    /\ \E k \in DOMAIN edges : edges[k].Src # call.fromID

\* C9  RemoveStaleEdges is idempotent and total: it returns no error, also
\* for a fromID without edges or unknown, and a second call with the same
\* arguments right after the first changes nothing stored.
C9_PruningIdempotent ==
    [][ IsCall("RemoveStaleEdges") =>
          /\ call'.err = NoError
          /\ repeated' => UNCHANGED store ]_vars

\* The same pruning ran twice in a row on a source that keeps an edge.
C9_Witness ==
    /\ call.op = "RemoveStaleEdges"
    /\ repeated
    /\ EdgeListOf(call.fromID) # << >>

\* The same pruning ran twice in a row for an identifier that is no link.
C9_WitnessUnknown ==
    /\ call.op = "RemoveStaleEdges"
    /\ repeated
    /\ call.fromID \notin StoredLinkIDs
    /\ DOMAIN edges # {}

\* C10  Links range scan: the iterator's list holds exactly the stored links
\* with fromID <= ID < toID (as numbers) and RetrievedAt < retrievedBefore,
\* each once; it is empty when fromID >= toID.
C10_LinksRangeScan ==
    call.op = "Links" =>
        LET expected == { a \in StoredLinkAddrs :
                            /\ call.fromID <= linkObjs[a].ID
                            /\ linkObjs[a].ID < call.toID
                            /\ linkObjs[a].RetrievedAt < call.retrievedBefore }
        IN  /\ { call.out[i] : i \in DOMAIN call.out } = expected
            /\ Len(call.out) = Cardinality(expected)
            /\ call.fromID >= call.toID => call.out = << >>
            /\ call.err = NoError

\* A scan returned one of two stored links; the other is old enough but its
\* ID is at or above toID.
C10_Witness ==
    /\ call.op = "Links"
    /\ Len(call.out) = 1
    /\ \E a \in StoredLinkAddrs :
         /\ a # call.out[1]
         /\ linkObjs[a].RetrievedAt < call.retrievedBefore
         /\ linkObjs[a].ID >= call.toID

\* C11  Edges range scan: the iterator's list holds exactly the stored edges
\* whose Src is in [fromID, toID) (as numbers) and whose UpdatedAt is below
\* updatedBefore, each once; Dst takes no part in the selection.
C11_EdgesRangeScan ==
    call.op = "Edges" =>
        LET expected == { k \in DOMAIN edges :
                            /\ call.fromID <= edges[k].Src
                            /\ edges[k].Src < call.toID
                            /\ edges[k].UpdatedAt < call.updatedBefore }
        IN  /\ { call.out[i] : i \in DOMAIN call.out } = expected
            /\ Len(call.out) = Cardinality(expected)
            /\ call.err = NoError

\* A scan returned an edge whose Dst lies outside the range and left out an
\* old enough edge whose Src lies outside the range and whose Dst lies inside.
C11_Witness ==
    /\ call.op = "Edges"
    /\ \E i \in DOMAIN call.out :
         ~(call.fromID <= edges[call.out[i]].Dst /\ edges[call.out[i]].Dst < call.toID)
    /\ \E k \in DOMAIN edges :
         /\ k \notin { call.out[i] : i \in DOMAIN call.out }
         /\ edges[k].UpdatedAt < call.updatedBefore
         /\ call.fromID <= edges[k].Dst /\ edges[k].Dst < call.toID

\* The elements of a set of identifiers in increasing order.
RECURSIVE Ascending(_)
Ascending(S) ==
    IF S = {} THEN << >>
    ELSE LET least == CHOOSE x \in S : \A y \in S : x <= y
         IN  << least >> \o Ascending(S \ {least})

\* The end points a0 < a1 < ... < an of contiguous ranges that cover the
\* identifier space and are cut at these identifiers.
Tiling(cuts) == << NilUUID >> \o Ascending(cuts) \o << MaxUUID >>

\* The elements of a list.
Range(list) == { list[i] : i \in DOMAIN list }

\* C12  Partition tiling: in every state, for every tiling of the identifier
\* space into contiguous ranges and every threshold, the Links results of
\* the ranges are pairwise disjoint, their union is the result of one Links
\* call over the whole space, and every stored link below the threshold is
\* in exactly one of them.
C12_PartitionTiling ==
    \A cuts \in SUBSET IdPool, b \in Thresholds, o \in Orders(DOMAIN links) :
        LET ends    == Tiling(cuts)
            tiles   == 1..(Len(ends) - 1)
            tile(i) == Range(LinkList(o, ends[i], ends[i + 1], b))
            whole   == LinkList(o, NilUUID, MaxUUID, b)
        IN  /\ UNION { tile(i) : i \in tiles } = Range(whole)
            /\ \A i, j \in tiles : i # j => tile(i) \cap tile(j) = {}
            /\ \A i \in tiles :
                  Len(LinkList(o, ends[i], ends[i + 1], b)) = Cardinality(tile(i))
            /\ \A a \in StoredLinkAddrs :
                  linkObjs[a].RetrievedAt < b =>
                      Cardinality({ i \in tiles : a \in tile(i) }) = 1

\* Two links are stored and a Links call over the last range of a tiling,
\* which starts at the ID of one of them, returned that link alone, the other
\* being below the threshold too.
C12_Witness ==
    /\ call.op = "Links"
    /\ call.fromID \in StoredLinkIDs
    /\ call.toID = MaxUUID
    /\ Len(call.out) = 1
    /\ linkObjs[call.out[1]].ID = call.fromID
    /\ Cardinality({ a \in StoredLinkAddrs :
                       linkObjs[a].RetrievedAt < call.retrievedBefore }) = 2

\* C13  Snapshot isolation of iterators: every record an iterator yields is
\* the record, with its field values, that the store held when Links or
\* Edges made the iterator, whatever was written since.
C13_SnapshotIsolation ==
    call.op \in {"Link", "Edge"} => call.out = iter.snap[iter.cursor]

\* C14  No aliasing of engine state: no operation of the graph changes the
\* record a FindLink returned earlier, and a caller assigning to the record
\* FindLink gave it, or to the record it passed to UpsertLink or UpsertEdge,
\* changes nothing stored.
C14_NoAliasing ==
    [][ /\ (call'.op \in {"UpsertLink", "UpsertEdge", "RemoveStaleEdges"} /\ found.kind = "link")
            => Deref(found)' = Deref(found)
        /\ call'.op = "Assign" => UNCHANGED store ]_vars

\* The record FindLink returned still has the values of that time although
\* the stored link was updated since, and the caller has then overwritten
\* the record it passed to that update.
C14_Witness ==
    /\ call.op = "Assign"
    /\ call.to = "passed"
    /\ passed.kind = "link"
    /\ found.kind = "link"
    /\ found.val.ID \in DOMAIN links
    /\ found.val.RetrievedAt < LinkAt(found.val.ID).RetrievedAt

\* The IDs UpsertLink has returned so far.
ResolvedIDs == { firstID[u] : u \in DOMAIN firstID }

\* FindLink fails with NotFound exactly for the IDs no UpsertLink has
\* returned, and otherwise returns the link of that ID with the URL the ID
\* was given to.
FindLinkFindsResolved ==
    call.op = "FindLink" =>
        /\ call.err \in {NoError, ErrNotFound}
        /\ call.err = ErrNotFound <=> call.id \notin ResolvedIDs
        /\ call.err = NoError =>
              /\ call.out.ID = call.id
              /\ firstID[call.out.URL] = call.id

\* C15  Links are never deleted: FindLink(id) fails with NotFound exactly
\* when no UpsertLink has returned id; the ID an UpsertLink returns is stored
\* under the submitted URL and is the one first returned for that URL, and
\* no operation removes a stored link or changes its ID or URL.
C15_LinksNeverDeleted ==
    /\ []FindLinkFindsResolved
    /\ [][ /\ IsCall("UpsertLink") =>
                /\ call'.out.ID = firstID'[call'.in.URL]
                /\ call'.out.ID \in DOMAIN links'
                /\ linkObjs'[links'[call'.out.ID]].URL = call'.in.URL
           /\ \A id \in DOMAIN links :
               /\ id \in DOMAIN links'
               /\ linkObjs'[links'[id]].ID = id
               /\ linkObjs'[links'[id]].URL = LinkAt(id).URL ]_vars

\* A FindLink succeeded for one of two links, the source of a stored edge,
\* after the clock has reached its end.
C15_Witness ==
    /\ call.op = "FindLink"
    /\ call.err = NoError
    /\ Cardinality(ResolvedIDs) = 2
    /\ \E k \in DOMAIN edges : edges[k].Src = call.id
    /\ now = MaxTime

\* A FindLink of a generated identifier that no link has failed while
\* another link is stored.
C15_WitnessNotFound ==
    /\ call.op = "FindLink"
    /\ call.err = ErrNotFound
    /\ call.id \in IdPool
    /\ ResolvedIDs # {}

\* The goroutine runs one of the three writers.
IsWriter(t) == req[t].op \in {"UpsertLink", "UpsertEdge", "RemoveStaleEdges"}

\* No writer is between lock and unlock while another goroutine is.
WriterExclusion ==
    \A t, u \in Threads : (t # u /\ InSection(t) /\ IsWriter(t)) => ~InSection(u)

\* One link per URL, under one ID in both maps, and every UpsertLink about
\* to return holds the ID first returned for its URL.
OneLinkPerURL ==
    /\ \A a, b \in StoredLinkAddrs : linkObjs[a].URL = linkObjs[b].URL => a = b
    /\ Cardinality(DOMAIN links) = Cardinality(DOMAIN linkURLIndex)
    /\ \A t \in Threads :
         (pc[t] = "unlock" /\ req[t].op = "UpsertLink") =>
             /\ tmp[t].out.ID = firstID[req[t].link.URL]
             /\ tmp[t].out.ID = StoredByURL(req[t].link.URL).ID

\* One edge per ordered pair of endpoints.
OneEdgePerPair ==
    \A j, k \in DOMAIN edges :
        (edges[j].Src = edges[k].Src /\ edges[j].Dst = edges[k].Dst) => j = k

\* C16  Writer exclusion: no writer is inside its locked section while any
\* other goroutine is inside one; the store changes only in a step taken
\* while one writer is alone in its section, so the sections take effect
\* one after another; overlapping UpsertLink calls for one URL make one link
\* and return one ID, overlapping UpsertEdge calls for one pair make one edge.
C16_WriterExclusion ==
    /\ [](WriterExclusion /\ OneLinkPerURL /\ OneEdgePerPair)
    /\ [][ store' # store =>
             \E t \in Threads :
                /\ InSection(t) /\ IsWriter(t) /\ mu.writer = t
                /\ \A u \in Threads \ {t} : ~InSection(u) ]_vars

\* An UpsertLink is about to return the ID of a link that was inserted while
\* it waited for the lock, and the other goroutine waits with an UpsertLink
\* for the same URL.
C16_Witness ==
    \E t, u \in Threads :
        /\ t # u
        /\ pc[t] = "unlock" /\ req[t].op = "UpsertLink"
        /\ pc[u] = "lock" /\ req[u] = req[t]
        /\ tmp[t].out.ID # NilUUID
        /\ Cardinality(DOMAIN links) = 2

\* No list names an edge that the edge map does not hold.
NoDangling == \A id \in DOMAIN linkEdgeMap : ~Dangling(id)

\* C17  Atomic pruning: a list names an edge missing from the edge map only
\* while the pruning goroutine is between its deletes and the replacement of
\* that list, and then no other goroutine is inside a locked section; no
\* goroutine ever dereferences a missing edge.
C17_AtomicPruning ==
    /\ \A t \in Threads : pc[t] \notin {"unwind", "panic"}
    /\ ~NoDangling =>
         \E t \in Threads :
            /\ pc[t] = "replace"
            /\ mu.writer = t
            /\ \A id \in DOMAIN linkEdgeMap : Dangling(id) => id = req[t].fromID
            /\ \A u \in Threads \ {t} : ~InSection(u)

\* A pruning has deleted an edge and not yet replaced the list, and the
\* other goroutine waits for the lock with an operation that reads the lists.
C17_Witness ==
    \E t, u \in Threads :
        /\ pc[t] = "replace"
        /\ Dangling(req[t].fromID)
        /\ pc[u] = "lock"
        /\ req[u].op \in {"Edges", "UpsertEdge", "RemoveStaleEdges"}

\* A goroutine holds the lock exactly between its lock and its unlock, in
\* the mode of its operation, and never asks for it while holding it.
LockDiscipline ==
    \A t \in Threads :
        /\ pc[t] \in {"idle", "lock"} => (mu.writer # t /\ t \notin mu.readers)
        /\ (InSection(t) /\ IsWriter(t)) => (mu.writer = t /\ mu.readers = {})
        /\ (InSection(t) /\ ~IsWriter(t)) => (t \in mu.readers /\ mu.writer = NoThread)
        /\ pc[t] \notin {"unwind", "panic"}

\* C18  Deadlock freedom and completion: the lock is never requested by a
\* goroutine that holds it, it is released on every return (error returns
\* included), and under fair scheduling every call that was started returns.
C18_Completion ==
    /\ []LockDiscipline
    /\ \A t \in Threads : (pc[t] # "idle") ~> (pc[t] = "idle")

\* A retry loop has just drawn a used ID while the other goroutine waits for
\* the lock.
C18_Witness ==
    \E t, u \in Threads :
        /\ pc[t] = "gen"
        /\ tmp[t].out.ID \in (IF req[t].op = "UpsertLink" THEN DOMAIN links ELSE DOMAIN edges)
        /\ pc[u] = "lock"

\* An UpsertEdge is about to return UnknownEdgeLinks through its unlock.
C18_WitnessError ==
    \E t \in Threads :
        /\ pc[t] = "unlock"
        /\ tmp[t].err = ErrUnknownEdgeLinks
        /\ mu.writer = t

\* The positions of a list that hold this edge ID.
Places(list, k) == { i \in DOMAIN list : list[i] = k }

\* C19  Index consistency: every ID in the list of link s is a key of the
\* edge map whose edge has Src = s; every edge of the edge map is once in the
\* list of its Src and in no other list; both link maps hold the same record
\* for every stored link, under its ID and under its URL.
C19_IndexConsistency ==
    /\ \A s \in DOMAIN linkEdgeMap : \A i \in DOMAIN linkEdgeMap[s] :
         /\ linkEdgeMap[s][i] \in DOMAIN edges
         /\ edges[linkEdgeMap[s][i]].Src = s
    /\ \A k \in DOMAIN edges :
         /\ edges[k].ID = k
         /\ Cardinality(Places(EdgeListOf(edges[k].Src), k)) = 1
         /\ \A s \in DOMAIN linkEdgeMap : s # edges[k].Src => Places(linkEdgeMap[s], k) = {}
    /\ \A a \in StoredLinkAddrs :
         /\ linkObjs[a].ID \in DOMAIN links
         /\ linkObjs[a].URL \in DOMAIN linkURLIndex
         /\ links[linkObjs[a].ID] = a
         /\ linkURLIndex[linkObjs[a].URL] = a

\* A pruning removed one edge of a link's list and kept another, and the
\* other link has an edge too.
C19_Witness ==
    /\ call.op = "RemoveStaleEdges"
    /\ call.removed # {}
    /\ EdgeListOf(call.fromID) # << >>
    /\ Cardinality(StoredLinkAddrs) = 2

\* C20  Referential integrity: Src and Dst of every stored edge are IDs of
\* stored links.
C20_ReferentialIntegrity ==
    \A k \in DOMAIN edges :
        /\ edges[k].Src \in StoredLinkIDs
        /\ edges[k].Dst \in StoredLinkIDs
        /\ edges[k].Src \in DOMAIN links
        /\ edges[k].Dst \in DOMAIN links

\* An edge between two different links is stored and the last call was an
\* UpsertLink that updated one of its endpoints.
C20_Witness ==
    /\ call.op = "UpsertLink"
    /\ \E k \in DOMAIN edges :
         /\ edges[k].Src # edges[k].Dst
         /\ call.out.ID \in {edges[k].Src, edges[k].Dst}

====
